---- MODULE Spec2Model ----
(***************************************************************************)
(* Model of package taint (src/taint/taint.go): RemoveTaintInBackground    *)
(* retries removeNotReadyTaint under wait.ExponentialBackoff; each attempt *)
(* reads the node, checks the CSINode allocatable count of the driver and  *)
(* removes the taint driverName/agent-not-ready with a test+replace JSON   *)
(* patch.  The node and the CSINode are remote objects that other clients  *)
(* of the API server may change between the steps of an attempt.           *)
(***************************************************************************)
EXTENDS Integers, Sequences, FiniteSets, TLC

\* ------------------------------------------------------------------ bounds
MaxTaints == 2      \* longest taint list the node holds
MaxSteps == 2       \* largest backoff.Steps a caller passes
MaxEnv == 2         \* environment events (external writes, record updates, faults, cancel) per behaviour

\* --------------------------------------------------------------- constants
AgentNotReadyNodeTaintKeySuffix == "/agent-not-ready"
InitialDelay == 500
BackoffFactor == 2
TestSteps == 10                 \* taintRemovalBackoff.Steps of TestRemoveTaint

Procs == {1, 2}                 \* invocations of RemoveTaintInBackground
driverName == "drv"
otherDriver == "other.drv"
nodeName == "node"

Taint(k, e) == [Key |-> k, Value |-> "", Effect |-> e]
startupTaintKey == driverName \o AgentNotReadyNodeTaintKeySuffix
Taints ==
    { Taint(startupTaintKey, "NoSchedule"),
      Taint(startupTaintKey, "NoExecute"),
      Taint(nodeName, "NoSchedule") }

RemoveAt(s, i) == SubSeq(s, 1, i - 1) \o SubSeq(s, i + 1, Len(s))
SeqsUpTo(S, n) == UNION { [1..k -> S] : k \in 0..n }
TaintLists == SeqsUpTo(Taints, MaxTaints)

\* storagev1.CSINodeDriver.Allocatable: *VolumeNodeResources with Count *int32
AllocNil == [isNil |-> TRUE, countNil |-> TRUE, count |-> 0]
CountNil == [isNil |-> FALSE, countNil |-> TRUE, count |-> 0]
CountSet(n) == [isNil |-> FALSE, countNil |-> FALSE, count |-> n]
Allocatables == {AllocNil, CountNil, CountSet(0), CountSet(1)}
Driver(n, a) == [Name |-> n, Allocatable |-> a]

\* The CSINode named nodeName: absent, or its spec.drivers (a list keyed by
\* driver name, so names are unique).
NoCSINode == [exists |-> FALSE, Drivers |-> <<>>]
CSINode(ds) == [exists |-> TRUE, Drivers |-> ds]
CSINodes ==
    {NoCSINode, CSINode(<<>>), CSINode(<<Driver(otherDriver, CountSet(1))>>)}
    \cup { CSINode(<<Driver(driverName, a)>>) : a \in Allocatables }
    \cup { CSINode(<<Driver(otherDriver, CountSet(1)), Driver(driverName, a)>>) : a \in Allocatables }

VARIABLES
    nodeTaints,     \* node.Spec.Taints as stored by the API server
    csiNode,        \* the CSINode object of the node
    pc,             \* per invocation: where RemoveTaintInBackground stands
    backoff,        \* per invocation: the wait.Backoff value of the loop
    node,           \* per invocation: node.Spec.Taints read by Nodes().Get
    lastErr,        \* per invocation: what the last removeNotReadyTaint returned
    backoffErr,     \* per invocation: what wait.ExponentialBackoff returned
    ctxCancelled,   \* per invocation: the caller cancelled ctx
    policy,         \* history: backoff.Steps passed by the caller
    startTaints,    \* history: the node's taints when the invocation started
    attempts,       \* history: calls of the condition function
    ended,          \* history: returns of removeNotReadyTaint
    checked,        \* history: checkAllocatable returned nil in the current attempt
    checkFailed,    \* history: attempts that ended in checkAllocatable
    patches,        \* history: Patch requests sent
    applied,        \* history: Patch requests the server applied
    lastPatch,      \* history: the last Patch request body
    delays,         \* history: the durations slept between attempts
    firstModified,  \* history: the node's taints at its first Modified event
    extWrites,      \* history: writes of other clients to the node
    recUpdates,     \* history: changes of the CSINode by other clients
    faults          \* history: remote calls that failed for transport reasons

procVars == <<pc, backoff, node, lastErr, backoffErr>>
histVars == <<policy, startTaints, attempts, ended, checked, checkFailed, patches, applied, lastPatch, delays>>
envVars == <<extWrites, recUpdates, faults, ctxCancelled>>
vars == <<nodeTaints, csiNode, procVars, histVars, envVars, firstModified>>

\* ------------------------------------------------------- pure functions

\* taint.go:54
taintKeyToRemove(driver) == driver \o AgentNotReadyNodeTaintKeySuffix

\* Mutant: the comparison of taint.go:59 inverted
KeepTaintInverted(taint, key) == taint.Key = key

\* taint.go:59: a taint is kept when its key differs from the key to remove
KeepTaint(taint, key) == taint.Key # key

\* Mutant: the loop stops removing after the first taint with the key
KeepLoopFirstOnly(taints, key, i, keep) ==
    IF \E j \in 1..Len(taints) : taints[j].Key = key
    THEN RemoveAt(taints, CHOOSE j \in 1..Len(taints) :
                            /\ taints[j].Key = key
                            /\ \A h \in 1..(j - 1) : taints[h].Key # key)
    ELSE taints

\* taint.go:56-64: the loop over node.Spec.Taints appending to taintsToKeep
RECURSIVE KeepLoop(_, _, _, _)
KeepLoop(taints, key, i, keep) ==
    IF i > Len(taints) THEN keep
    ELSE KeepLoop(taints, key, i + 1,
                  IF KeepTaint(taints[i], key) THEN Append(keep, taints[i]) ELSE keep)

taintsToKeep(taints, key) == KeepLoop(taints, key, 1, <<>>)

\* Mutant: the fast path taken when nothing is kept
SkipWhenNothingKept(keep, taints) == Len(keep) = 0

\* Mutant: no fast path, a patch is always sent
NeverSkip(keep, taints) == FALSE

\* Mutant: the fast path also taken when one entry was dropped
SkipOffByOne(keep, taints) == Len(keep) + 1 >= Len(taints)

\* taint.go:66: the count-based fast path
NothingToRemove(keep, taints) == Len(keep) = Len(taints)

\* json.Marshal of a []corev1.Taint: a nil slice (nothing was appended, or the
\* node has no taints) is null, anything else the array of its elements
Marshal(taints) ==
    IF taints = <<>> THEN [null |-> TRUE, items |-> <<>>]
    ELSE [null |-> FALSE, items |-> taints]

\* Mutant: the two values of the patch taken for one another
patchRemoveTaintsSwapped(observed, keep) ==
    << [OP |-> "test", Path |-> "/spec/taints", Value |-> Marshal(keep)],
       [OP |-> "replace", Path |-> "/spec/taints", Value |-> Marshal(observed)] >>

\* taint.go:71-82
patchRemoveTaints(observed, keep) ==
    << [OP |-> "test", Path |-> "/spec/taints", Value |-> Marshal(observed)],
       [OP |-> "replace", Path |-> "/spec/taints", Value |-> Marshal(keep)] >>

\* The server's side of Nodes().Patch with JSONPatchType (taint.go:89): the
\* operations run in order on the stored object and the first one that fails
\* fails the request as a whole.  spec.taints is omitted from the document
\* when empty, so no operation finds the path then.
PathExists(doc) == doc # <<>>

\* Mutant: the test operation compares nothing
TestOpAlwaysPasses(doc, value) == TRUE

\* Mutant: the test operation compares the number of taints only
TestOpByLength(doc, value) == PathExists(doc) /\ ~value.null /\ Len(value.items) = Len(doc)

TestOp(doc, value) == PathExists(doc) /\ ~value.null /\ value.items = doc

\* Mutant: only the last operation of the patch is carried out
ApplyOpsLastOnly(doc, ops, i) ==
    [ok |-> TRUE,
     doc |-> IF ops[Len(ops)].Value.null THEN <<>> ELSE ops[Len(ops)].Value.items]

RECURSIVE ApplyOps(_, _, _)
ApplyOps(doc, ops, i) ==
    IF i > Len(ops) THEN [ok |-> TRUE, doc |-> doc]
    ELSE IF ops[i].OP = "test"
         THEN IF TestOp(doc, ops[i].Value)
              THEN ApplyOps(doc, ops, i + 1)
              ELSE [ok |-> FALSE, doc |-> doc]
         ELSE IF PathExists(doc)
              THEN ApplyOps(IF ops[i].Value.null THEN <<>> ELSE ops[i].Value.items, ops, i + 1)
              ELSE [ok |-> FALSE, doc |-> doc]

ApplyJSONPatch(stored, ops) ==
    LET r == ApplyOps(stored, ops, 1)
    IN  IF r.ok THEN r ELSE [ok |-> FALSE, doc |-> stored]

\* Mutant: a count of zero taken for an unset count
AllocatablePositive(driver) ==
    ~driver.Allocatable.isNil /\ ~driver.Allocatable.countNil /\ driver.Allocatable.count > 0

\* taint.go:105: Allocatable != nil && Allocatable.Count != nil
AllocatableSet(driver) == ~driver.Allocatable.isNil /\ ~driver.Allocatable.countNil

\* Mutant: the loop falls through to nil when no entry has the name
DriversLoopDefaultNil(drivers, name, i) ==
    IF \E j \in 1..Len(drivers) : drivers[j].Name = name
    THEN IF \E j \in 1..Len(drivers) :
                drivers[j].Name = name /\ ~drivers[j].Allocatable.isNil /\ ~drivers[j].Allocatable.countNil
         THEN "nil" ELSE "CapacityUnset"
    ELSE "nil"

\* taint.go:103-113: the loop over csiNode.Spec.Drivers
RECURSIVE DriversLoop(_, _, _)
DriversLoop(drivers, name, i) ==
    IF i > Len(drivers) THEN "DriverAbsent"
    ELSE IF drivers[i].Name = name
         THEN IF AllocatableSet(drivers[i]) THEN "nil" ELSE "CapacityUnset"
         ELSE DriversLoop(drivers, name, i + 1)

\* taint.go:98-101: CSINodes().Get; getErr is the transport's error, "nil" if none
GetCSINode(record, getErr) ==
    IF getErr # "nil" THEN [err |-> getErr, obj |-> NoCSINode]
    ELSE IF ~record.exists THEN [err |-> "NotFound", obj |-> NoCSINode]
    ELSE [err |-> "nil", obj |-> record]

\* taint.go:97-114
checkAllocatable(got, name) ==
    IF got.err # "nil" THEN got.err
    ELSE DriversLoop(got.obj.Drivers, name, 1)

\* Mutant: the error of checkAllocatable is dropped
CheckIgnored(err) == TRUE

\* taint.go:50-52: removeNotReadyTaint goes on only when checkAllocatable returned nil
CheckPassed(err) == err = "nil"

\* Mutant: the condition function hands the error to the backoff loop
ConditionFuncPropagates(err) ==
    IF err # "nil" THEN [ok |-> FALSE, err |-> err]
    ELSE [ok |-> TRUE, err |-> "nil"]

\* taint.go:26-33: the condition function handed to wait.ExponentialBackoff
\* Mutant: the condition never reports done
ConditionFuncNeverDone(err) == [ok |-> FALSE, err |-> "nil"]

ConditionFunc(err) ==
    IF err # "nil" THEN [ok |-> FALSE, err |-> "nil"]
    ELSE [ok |-> TRUE, err |-> "nil"]

\* Mutant: the step counter is not decremented
StepKeepsSteps(b) ==
    [b EXCEPT !.Duration = IF b.Factor # 0 THEN @ * b.Factor ELSE @]

\* wait.Backoff.Step as called by the loop (Jitter and Cap are zero)
Step(b) ==
    IF b.Steps < 1 THEN b
    ELSE [b EXCEPT !.Steps = @ - 1,
                   !.Duration = IF b.Factor # 0 THEN @ * b.Factor ELSE @]

\* Mutant: the loop does not break on the last step and sleeps once more
ExponentialBackoffNoBreak(b, cond) ==
    IF cond.err # "nil" \/ cond.ok
    THEN [again |-> FALSE, backoff |-> b, err |-> cond.err, slept |-> <<>>]
    ELSE IF Step(b).Steps > 0
    THEN [again |-> TRUE, backoff |-> Step(b), err |-> "nil", slept |-> <<b.Duration>>]
    ELSE [again |-> FALSE, backoff |-> Step(b), err |-> "ErrWaitTimeout", slept |-> <<b.Duration>>]

\* Mutant: the loop does not return when the condition reports done
ExponentialBackoffIgnoresDone(b, cond) ==
    IF cond.err # "nil"
    THEN [again |-> FALSE, backoff |-> b, err |-> cond.err, slept |-> <<>>]
    ELSE IF b.Steps = 1
    THEN [again |-> FALSE, backoff |-> b, err |-> "ErrWaitTimeout", slept |-> <<>>]
    ELSE IF Step(b).Steps > 0
    THEN [again |-> TRUE, backoff |-> Step(b), err |-> "nil", slept |-> <<b.Duration>>]
    ELSE [again |-> FALSE, backoff |-> Step(b), err |-> "ErrWaitTimeout", slept |-> <<b.Duration>>]

\* One pass of the loop of wait.ExponentialBackoff after the condition
\* returned cond: return its error or success, break on the last step, or
\* sleep backoff.Step() and test Steps > 0 again.
ExponentialBackoff(b, cond) ==
    IF cond.err # "nil" \/ cond.ok
    THEN [again |-> FALSE, backoff |-> b, err |-> cond.err, slept |-> <<>>]
    ELSE IF b.Steps = 1
    THEN [again |-> FALSE, backoff |-> b, err |-> "ErrWaitTimeout", slept |-> <<>>]
    ELSE IF Step(b).Steps > 0
    THEN [again |-> TRUE, backoff |-> Step(b), err |-> "nil", slept |-> <<b.Duration>>]
    ELSE [again |-> FALSE, backoff |-> Step(b), err |-> "ErrWaitTimeout", slept |-> <<b.Duration>>]

\* Mutant: the error returned by the backoff loop is not looked at
OutcomeIgnoresError(err) == "Succeeded"

\* taint.go:35-38: a non-nil backoffErr is logged as exhaustion
Outcome(err) == IF err # "nil" THEN "Exhausted" ELSE "Succeeded"

\* ---------------------------------------------------------------- state

Terminal == {"Succeeded", "Exhausted"}
Running == {"Pending", "GetNode", "CheckAllocatable", "Mutate"}

NoPatch == <<>>
NotModified == [set |-> FALSE, taints |-> <<>>]

EnvEvents == extWrites + recUpdates + faults + Cardinality({p \in Procs : ctxCancelled[p]})

\* TestRemoveTaint (part_000:20-54) creates the node and the CSINode before
\* the call; here any taint list and any CSINode state stand for them.
Init ==
    /\ nodeTaints \in TaintLists
    /\ csiNode \in CSINodes
    /\ pc = [p \in Procs |-> "Idle"]
    /\ backoff = [p \in Procs |-> [Duration |-> InitialDelay, Factor |-> BackoffFactor, Steps |-> 0]]
    /\ node = [p \in Procs |-> <<>>]
    /\ lastErr = [p \in Procs |-> "nil"]
    /\ backoffErr = [p \in Procs |-> "nil"]
    /\ ctxCancelled = [p \in Procs |-> FALSE]
    /\ policy = [p \in Procs |-> 0]
    /\ startTaints = [p \in Procs |-> <<>>]
    /\ attempts = [p \in Procs |-> 0]
    /\ ended = [p \in Procs |-> 0]
    /\ checked = [p \in Procs |-> FALSE]
    /\ checkFailed = [p \in Procs |-> 0]
    /\ patches = [p \in Procs |-> 0]
    /\ applied = [p \in Procs |-> 0]
    /\ lastPatch = [p \in Procs |-> NoPatch]
    /\ delays = [p \in Procs |-> <<>>]
    /\ firstModified = NotModified
    /\ extWrites = 0
    /\ recUpdates = 0
    /\ faults = 0

\* ------------------------------------------------------------- the Retrier

\* A caller starts RemoveTaintInBackground(ctx, client, nodeName, driverName, backoff)
InvokeWith(p, steps) ==
    /\ pc[p] = "Idle"
    /\ backoff' = [backoff EXCEPT ![p] = [Duration |-> InitialDelay, Factor |-> BackoffFactor, Steps |-> steps]]
    /\ policy' = [policy EXCEPT ![p] = steps]
    /\ pc' = [pc EXCEPT ![p] = "Pending"]
    /\ startTaints' = [startTaints EXCEPT ![p] = nodeTaints]
    /\ UNCHANGED <<nodeTaints, csiNode, node, lastErr, backoffErr, attempts, ended, checked,
                   checkFailed, patches, applied, lastPatch, delays, envVars, firstModified>>

Invoke(p) == \E steps \in 0..MaxSteps : InvokeWith(p, steps)

\* wait.ExponentialBackoff tests backoff.Steps > 0 before the first call of
\* the condition; with no step it returns ErrWaitTimeout at once.
Begin(p) ==
    /\ pc[p] = "Pending"
    /\ IF backoff[p].Steps > 0
       THEN /\ pc' = [pc EXCEPT ![p] = "GetNode"]
            /\ UNCHANGED backoffErr
       ELSE /\ pc' = [pc EXCEPT ![p] = Outcome("ErrWaitTimeout")]
            /\ backoffErr' = [backoffErr EXCEPT ![p] = "ErrWaitTimeout"]
    /\ UNCHANGED <<nodeTaints, csiNode, backoff, node, lastErr, histVars, envVars, firstModified>>

\* removeNotReadyTaint returned err: the condition function turns it into
\* (done, error), the backoff loop goes on or returns, and
\* RemoveTaintInBackground logs and returns when the loop has returned.
EndAttempt(p, err) ==
    LET r == ExponentialBackoff(backoff[p], ConditionFunc(err))
    IN  /\ lastErr' = [lastErr EXCEPT ![p] = err]
        /\ ended' = [ended EXCEPT ![p] = @ + 1]
        /\ backoff' = [backoff EXCEPT ![p] = r.backoff]
        /\ delays' = [delays EXCEPT ![p] = @ \o r.slept]
        /\ IF r.again
           THEN /\ pc' = [pc EXCEPT ![p] = "GetNode"]
                /\ UNCHANGED backoffErr
           ELSE /\ pc' = [pc EXCEPT ![p] = Outcome(r.err)]
                /\ backoffErr' = [backoffErr EXCEPT ![p] = r.err]

\* A remote call may fail: for a transport fault, or because ctx is cancelled
CallMayFail(p) == ctxCancelled[p] \/ EnvEvents < MaxEnv
CountFault(p) == faults' = IF ctxCancelled[p] THEN faults ELSE faults + 1

\* taint.go:45-48: the condition function is called and reads the node
GetNode(p) ==
    /\ pc[p] = "GetNode"
    /\ attempts' = [attempts EXCEPT ![p] = @ + 1]
    /\ checked' = [checked EXCEPT ![p] = FALSE]
    /\ \/ /\ node' = [node EXCEPT ![p] = nodeTaints]
          /\ pc' = [pc EXCEPT ![p] = "CheckAllocatable"]
          /\ UNCHANGED <<backoff, lastErr, backoffErr, delays, ended, faults>>
       \/ /\ CallMayFail(p)
          /\ CountFault(p)
          /\ EndAttempt(p, "NodeGetFailed")
          /\ UNCHANGED node
    /\ UNCHANGED <<nodeTaints, csiNode, policy, startTaints, checkFailed, patches, applied,
                   lastPatch, extWrites, recUpdates, ctxCancelled, firstModified>>

\* taint.go:50-52: checkAllocatable
CheckAllocatable(p) ==
    /\ pc[p] = "CheckAllocatable"
    /\ \E getErr \in {"nil"} \cup (IF CallMayFail(p) THEN {"CSINodeGetFailed"} ELSE {}) :
          LET err == checkAllocatable(GetCSINode(csiNode, getErr), driverName)
          IN  /\ faults' = IF getErr = "nil" \/ ctxCancelled[p] THEN faults ELSE faults + 1
              /\ checked' = [checked EXCEPT ![p] = (err = "nil")]
              /\ IF CheckPassed(err)
                 THEN /\ pc' = [pc EXCEPT ![p] = "Mutate"]
                      /\ UNCHANGED <<backoff, lastErr, backoffErr, delays, ended, checkFailed>>
                 ELSE /\ checkFailed' = [checkFailed EXCEPT ![p] = @ + 1]
                      /\ EndAttempt(p, err)
    /\ UNCHANGED <<nodeTaints, csiNode, node, policy, startTaints, attempts, patches, applied,
                   lastPatch, extWrites, recUpdates, ctxCancelled, firstModified>>

\* taint.go:54-69: nothing in the node that was read carries the key
SkipRemoval(p) ==
    /\ pc[p] = "Mutate"
    /\ NothingToRemove(taintsToKeep(node[p], taintKeyToRemove(driverName)), node[p])
    /\ EndAttempt(p, "nil")
    /\ UNCHANGED <<nodeTaints, csiNode, node, policy, startTaints, attempts, checked, checkFailed,
                   patches, applied, lastPatch, envVars, firstModified>>

\* taint.go:54-94: the test+replace patch is sent; the server applies it or
\* rejects it as a whole
PatchTaints(p) ==
    /\ pc[p] = "Mutate"
    /\ LET keep == taintsToKeep(node[p], taintKeyToRemove(driverName))
           patch == patchRemoveTaints(node[p], keep)
           res == ApplyJSONPatch(nodeTaints, patch)
       IN  /\ ~NothingToRemove(keep, node[p])
           /\ patches' = [patches EXCEPT ![p] = @ + 1]
           /\ lastPatch' = [lastPatch EXCEPT ![p] = patch]
           /\ \/ /\ res.ok
                 /\ nodeTaints' = res.doc
                 /\ applied' = [applied EXCEPT ![p] = @ + 1]
                 /\ firstModified' = IF firstModified.set THEN firstModified
                                     ELSE [set |-> TRUE, taints |-> res.doc]
                 /\ EndAttempt(p, "nil")
                 /\ UNCHANGED faults
              \/ /\ ~res.ok
                 /\ EndAttempt(p, "Conflict")
                 /\ UNCHANGED <<nodeTaints, applied, firstModified, faults>>
              \/ /\ CallMayFail(p)
                 /\ CountFault(p)
                 /\ EndAttempt(p, "PatchFailed")
                 /\ UNCHANGED <<nodeTaints, applied, firstModified>>
    /\ UNCHANGED <<csiNode, node, policy, startTaints, attempts, checked, checkFailed,
                   extWrites, recUpdates, ctxCancelled>>

\* The caller cancels the ctx it passed (part_001:25)
Cancel(p) ==
    /\ pc[p] \in Running
    /\ ~ctxCancelled[p]
    /\ EnvEvents < MaxEnv
    /\ ctxCancelled' = [ctxCancelled EXCEPT ![p] = TRUE]
    /\ UNCHANGED <<nodeTaints, csiNode, procVars, histVars, extWrites, recUpdates, faults, firstModified>>

\* ------------------------------------------------------- the environment

Started == \E p \in Procs : pc[p] # "Idle"

ExternalWrite(new) ==
    /\ Started
    /\ EnvEvents < MaxEnv
    /\ nodeTaints' = new
    /\ extWrites' = extWrites + 1
    /\ firstModified' = IF firstModified.set THEN firstModified ELSE [set |-> TRUE, taints |-> new]
    /\ UNCHANGED <<csiNode, procVars, histVars, recUpdates, faults, ctxCancelled>>

\* Another client adds a taint to the node
ExternalAddTaint ==
    \E t \in Taints : Len(nodeTaints) < MaxTaints /\ ExternalWrite(Append(nodeTaints, t))

\* Another client removes a taint from the node
ExternalRemoveTaint ==
    \E i \in 1..Len(nodeTaints) : ExternalWrite(RemoveAt(nodeTaints, i))

HasDriver(record, name) == \E i \in 1..Len(record.Drivers) : record.Drivers[i].Name = name

WithAllocatable(record, name, a) ==
    CSINode([i \in 1..Len(record.Drivers) |->
                IF record.Drivers[i].Name = name THEN Driver(name, a) ELSE record.Drivers[i]])

RecordUpdate(new) ==
    /\ Started
    /\ EnvEvents < MaxEnv
    /\ csiNode' = new
    /\ recUpdates' = recUpdates + 1
    /\ UNCHANGED <<nodeTaints, procVars, histVars, extWrites, faults, ctxCancelled, firstModified>>

\* The kubelet registers the driver in the CSINode, its count not yet set
RegisterDriver ==
    /\ ~HasDriver(csiNode, driverName)
    /\ RecordUpdate(CSINode(Append(csiNode.Drivers, Driver(driverName, AllocNil))))

\* The driver's allocatable count is set
SetAllocatable ==
    /\ HasDriver(csiNode, driverName)
    /\ WithAllocatable(csiNode, driverName, CountSet(1)) # csiNode
    /\ RecordUpdate(WithAllocatable(csiNode, driverName, CountSet(1)))

\* The driver is unregistered
UnregisterDriver ==
    /\ HasDriver(csiNode, driverName)
    /\ RecordUpdate(CSINode(SelectSeq(csiNode.Drivers, LAMBDA d : d.Name # driverName)))

Environment ==
    \/ ExternalAddTaint
    \/ ExternalRemoveTaint
    \/ RegisterDriver
    \/ SetAllocatable
    \/ UnregisterDriver

\* ------------------------------------------------------- specifications

Retrier(p) ==
    \/ Begin(p)
    \/ GetNode(p)
    \/ CheckAllocatable(p)
    \/ SkipRemoval(p)
    \/ PatchTaints(p)

\* One invocation, with other clients writing between its steps
Next ==
    \/ Invoke(1)
    \/ Retrier(1)
    \/ Cancel(1)
    \/ Environment

Spec == Init /\ [][Next]_vars

\* Two invocations in succession, the second started after the first has
\* returned, and no other client writing
InvokeAgain == pc[1] \in Terminal /\ Invoke(2)

NextTwice ==
    \/ Invoke(1)
    \/ InvokeAgain
    \/ \E p \in Procs : Retrier(p)

SpecTwice == Init /\ [][NextTwice]_vars

\* One invocation with the policy of TestRemoveTaint (500ms, factor 2, 10
\* steps) on the test's node, with the driver registered or not
InitSchedule ==
    /\ Init
    /\ nodeTaints = <<Taint(nodeName, "NoSchedule"), Taint(startupTaintKey, "NoSchedule")>>
    /\ csiNode \in {CSINode(<<>>), CSINode(<<Driver(driverName, CountSet(1))>>)}

InvokeTest == InvokeWith(1, TestSteps)

NextSchedule ==
    \/ InvokeTest
    \/ Retrier(1)
    \/ Cancel(1)
    \/ Environment

SpecSchedule == InitSchedule /\ [][NextSchedule]_vars

\* Two invocations for the same node and driver whose steps interleave, on a
\* node that holds the taint and a CSINode with the driver's count set; no
\* other client writes.
InitConcurrent ==
    /\ Init
    /\ \E i \in 1..Len(nodeTaints) : nodeTaints[i].Key = taintKeyToRemove(driverName)
    /\ \E i \in 1..Len(csiNode.Drivers) :
          csiNode.Drivers[i].Name = driverName /\ AllocatableSet(csiNode.Drivers[i])

NextConcurrent ==
    \/ Invoke(1)
    \/ Invoke(2)
    \/ \E p \in Procs : Retrier(p)

SpecConcurrent == InitConcurrent /\ [][NextConcurrent]_vars

\* The goroutine started at taint.go:25 keeps running: a step of the loop
\* that can be taken is taken; nothing is assumed of the environment.
RetrierRuns == WF_vars(Retrier(1))

\* One invocation with any policy on the test's node, under that fairness
SpecFair == InitSchedule /\ [][Next]_vars /\ RetrierRuns

\* ------------------------------------------------------------- properties

targetKey == driverName \o AgentNotReadyNodeTaintKeySuffix

HasKey(taints, key) == \E i \in 1..Len(taints) : taints[i].Key = key

\* taints minus every entry whose key is key, the rest in their order
Without(taints, key) == SelectSeq(taints, LAMBDA t : t.Key # key)

\* the record has an entry for name whose allocatable count is set
CapacitySet(record, name) ==
    /\ record.exists
    /\ \E i \in 1..Len(record.Drivers) :
          /\ record.Drivers[i].Name = name
          /\ ~record.Drivers[i].Allocatable.isNil
          /\ ~record.Drivers[i].Allocatable.countNil

\* no fault, no cancellation, and no other client wrote the node or the record
Quiet(p) == extWrites = 0 /\ recUpdates = 0 /\ faults = 0 /\ ~ctxCancelled[p]

Unmarshal(value) == IF value.null THEN <<>> ELSE value.items

OtherTaint == Taint(nodeName, "NoSchedule")
StartupTaint == Taint(targetKey, "NoSchedule")

\* C1: End-to-end removal.  With the driver's count set in the record, a
\* node holding a taint with the startup key, no fault and no other writer,
\* an invocation whose policy has a step makes one attempt, sends one patch,
\* which is applied, ends in Succeeded, and the first modification of the
\* node leaves the initial taints without the startup taint, in their order.
C1_EndToEndRemoval ==
    (Quiet(1) /\ policy[1] >= 1 /\ CapacitySet(csiNode, driverName)
        /\ HasKey(startTaints[1], targetKey))
    => /\ attempts[1] <= 1 /\ patches[1] <= 1
       /\ pc[1] \in Terminal =>
            /\ pc[1] = "Succeeded"
            /\ attempts[1] = 1
            /\ patches[1] = 1 /\ applied[1] = 1
            /\ firstModified = [set |-> TRUE, taints |-> Without(startTaints[1], targetKey)]
            /\ nodeTaints = Without(startTaints[1], targetKey)

C1_Witness ==
    /\ pc[1] = "Succeeded" /\ Quiet(1) /\ attempts[1] = 1 /\ applied[1] = 1
    /\ startTaints[1] = <<OtherTaint, StartupTaint>>
    /\ nodeTaints = <<OtherTaint>>
    /\ firstModified = [set |-> TRUE, taints |-> <<OtherTaint>>]

\* the Mutator of invocation p returns in this step
MutatorReturns(p) == pc[p] = "Mutate" /\ pc'[p] # "Mutate"

C3_NoWriteBeforeReady ==
    [][\A p \in Procs :
          /\ patches'[p] > patches[p] => checked[p] /\ pc[p] = "Mutate"
          /\ (checkFailed'[p] > checkFailed[p]) =>
                (patches'[p] = patches[p] /\ nodeTaints' = nodeTaints /\ ended'[p] = ended[p] + 1)]_vars

C3_Witness ==
    /\ checkFailed[1] = 1 /\ attempts[1] = 2
    /\ patches[1] = 1 /\ applied[1] = 1 /\ checked[1]

\* what the Checker is to answer for a record
Expected(record, name) ==
    IF ~record.exists THEN "NotFound"
    ELSE IF ~\E i \in 1..Len(record.Drivers) : record.Drivers[i].Name = name THEN "DriverAbsent"
    ELSE IF CapacitySet(record, name) THEN "nil"
    ELSE "CapacityUnset"

\* the Checker of invocation p returns in this step
CheckerReturns(p) == pc[p] = "CheckAllocatable" /\ pc'[p] # "CheckAllocatable"

\* C4: When its read of the record does not fail in transport, the Checker
\* answers by the record alone: NotFound without a record, DriverAbsent
\* without an entry of the driver, CapacityUnset with an entry whose count is
\* unset, success with a count that is set, zero included; and it changes
\* neither the record nor the node.
C4_CheckerOutcome ==
    [][\A p \in Procs : CheckerReturns(p) =>
          LET out == IF pc'[p] = "Mutate" THEN "nil" ELSE lastErr'[p]
          IN  /\ out \in {Expected(csiNode, driverName), "CSINodeGetFailed"}
              /\ (faults' = faults /\ ~ctxCancelled[p]) => out = Expected(csiNode, driverName)
              /\ csiNode' = csiNode
              /\ nodeTaints' = nodeTaints]_vars

C4_Witness ==
    /\ pc[1] = "Mutate" /\ checked[1]
    /\ csiNode = CSINode(<<Driver(otherDriver, CountSet(1)), Driver(driverName, CountSet(0))>>)
    /\ recUpdates = 0

\* C5: When the node that was read holds no taint with the key, the Mutator
\* sends no patch, the node's taints stay as they are, the attempt returns
\* nil and the invocation ends in Succeeded.
C5_NoOpOnAbsence ==
    [][\A p \in Procs : (MutatorReturns(p) /\ ~HasKey(node[p], targetKey)) =>
          /\ patches'[p] = patches[p]
          /\ nodeTaints' = nodeTaints
          /\ lastErr'[p] = "nil"
          /\ pc'[p] = "Succeeded"
          /\ backoffErr'[p] = "nil"]_vars

C5_Witness ==
    /\ pc[1] = "Succeeded" /\ attempts[1] = 1 /\ patches[1] = 0
    /\ startTaints[1] = <<OtherTaint>> /\ node[1] = <<OtherTaint>>
    /\ nodeTaints = <<OtherTaint>> /\ extWrites = 0

C7_ConflictHandling ==
    [][\A p \in Procs :
          (MutatorReturns(p) /\ patches'[p] > patches[p] /\ nodeTaints # node[p]) =>
              /\ nodeTaints' = nodeTaints
              /\ applied'[p] = applied[p]
              /\ patches'[p] = patches[p] + 1
              /\ lastErr'[p] \in {"Conflict", "PatchFailed"}
              /\ (faults' = faults /\ ~ctxCancelled[p]) => lastErr'[p] = "Conflict"
              /\ IF attempts[p] < policy[p]
                 THEN pc'[p] = "GetNode"
                 ELSE pc'[p] = "Exhausted"]_vars

C7_Witness ==
    /\ lastErr[1] = "Conflict" /\ pc[1] = "GetNode" /\ attempts[1] = 1
    /\ extWrites = 1 /\ patches[1] = 1 /\ applied[1] = 0
    /\ node[1] = <<StartupTaint>>
    /\ nodeTaints = <<StartupTaint, OtherTaint>>

\* C8: Exhaustion.  While the record has no entry for the driver (and no
\* read fails), no patch is sent; the invocation ends in Exhausted with
\* ErrWaitTimeout after exactly as many attempts as the policy has steps,
\* each of them failed in the Checker with DriverAbsent, and the node's
\* taints are those of the start unless another client wrote them.
C8_Exhaustion ==
    (recUpdates = 0 /\ faults = 0 /\ ~ctxCancelled[1]
        /\ csiNode.exists /\ ~HasDriver(csiNode, driverName))
    => /\ patches[1] = 0 /\ applied[1] = 0
       /\ checkFailed[1] = ended[1]
       /\ ended[1] >= 1 => lastErr[1] = "DriverAbsent"
       /\ (pc[1] # "Idle" /\ extWrites = 0) => nodeTaints = startTaints[1]
       /\ pc[1] \in Terminal =>
            /\ pc[1] = "Exhausted" /\ backoffErr[1] = "ErrWaitTimeout"
            /\ attempts[1] = policy[1] /\ ended[1] = policy[1]

C8_Witness ==
    /\ pc[1] = "Exhausted" /\ policy[1] = MaxSteps /\ attempts[1] = MaxSteps
    /\ checkFailed[1] = MaxSteps /\ lastErr[1] = "DriverAbsent"
    /\ EnvEvents = 0 /\ patches[1] = 0
    /\ csiNode = CSINode(<<Driver(otherDriver, CountSet(1))>>)
    /\ nodeTaints = <<OtherTaint, StartupTaint>>

\* C9: Error absorption.  Whatever error an attempt returns, the backoff
\* loop is not aborted by it: another attempt follows while the policy has
\* steps left, and otherwise the loop returns ErrWaitTimeout; the loop never
\* returns an attempt's error.
C9_ErrorAbsorption ==
    [][\A p \in Procs :
          /\ backoffErr'[p] \in {"nil", "ErrWaitTimeout"}
          /\ (ended'[p] > ended[p] /\ lastErr'[p] # "nil") =>
                IF attempts'[p] < policy[p]
                THEN pc'[p] = "GetNode" /\ backoffErr'[p] = "nil"
                ELSE pc'[p] = "Exhausted" /\ backoffErr'[p] = "ErrWaitTimeout"
          /\ (ended'[p] > ended[p] /\ lastErr'[p] = "nil") =>
                pc'[p] = "Succeeded" /\ backoffErr'[p] = "nil"]_vars

C9_Witness ==
    /\ pc[1] = "GetNode" /\ ended[1] = 1 /\ lastErr[1] = "NodeGetFailed"
    /\ policy[1] = 2 /\ backoffErr[1] = "nil"

\* C10: Cancellation.  Once the caller has cancelled ctx, the invocation
\* starts no further attempt and sends no further patch.
C10_StopsOnCancel ==
    [][\A p \in Procs : ctxCancelled[p] =>
          (attempts'[p] = attempts[p] /\ patches'[p] = patches[p])]_vars


\* the delay the policy of the test prescribes before attempt n
ScheduledDelay(n) == 500 * 2^(n - 2)

\* C11: Backoff schedule.  With 500ms, factor 2 and 10 steps the first
\* attempt starts with no delay, the delay slept before attempt n is
\* 500ms * 2^(n-2) for n in 2..10, nothing is slept after the last attempt,
\* and this holds whatever errors the attempts returned.
C11_BackoffSchedule ==
    /\ \A i \in 1..Len(delays[1]) : delays[1][i] = ScheduledDelay(i + 1)
    /\ attempts[1] <= 10
    /\ Len(delays[1]) = IF pc[1] = "GetNode" THEN attempts[1]
                        ELSE IF attempts[1] = 0 THEN 0 ELSE attempts[1] - 1

C11_Witness ==
    /\ pc[1] = "Exhausted" /\ attempts[1] = 10
    /\ delays[1] = <<500, 1000, 2000, 4000, 8000, 16000, 32000, 64000, 128000>>
    /\ checkFailed[1] >= 1 /\ patches[1] >= 1 /\ lastErr[1] = "NodeGetFailed"


\* The state of the Retrier: Pending until the backoff loop has tested its
\* step count, Retrying while the loop runs, then the outcome
RetrierState(p) ==
    CASE pc[p] \in {"Idle", "Pending"} -> "Pending"
      [] pc[p] \in {"GetNode", "CheckAllocatable", "Mutate"} -> "Retrying"
      [] OTHER -> pc[p]

\* the moves the four listed transitions allow to invocation p in one step
ListedMove(p) ==
    LET from == RetrierState(p)
        to == RetrierState(p)'
    IN  \/ from = to /\ from # "Retrying"
        \/ from = "Pending" /\ to = "Retrying" /\ attempts[p] = 0
        \/ from = "Retrying" /\ to = "Retrying" /\ ended'[p] = ended[p]
        \/ /\ from = "Retrying" /\ to = "Retrying"
           /\ ended'[p] = ended[p] + 1 /\ lastErr'[p] # "nil" /\ ended'[p] < policy[p]
        \/ /\ from = "Retrying" /\ to = "Succeeded"
           /\ ended'[p] = ended[p] + 1 /\ lastErr'[p] = "nil" /\ checked[p]
        \/ /\ from = "Retrying" /\ to = "Exhausted"
           /\ ended'[p] = ended[p] + 1 /\ lastErr'[p] # "nil" /\ ended'[p] = policy[p]

\* the move of a policy without steps: the loop returns before any attempt
NoStepMove(p) ==
    /\ RetrierState(p) = "Pending" /\ RetrierState(p)' = "Exhausted"
    /\ policy[p] = 0 /\ attempts'[p] = 0 /\ ended'[p] = 0

\* C12 as stated: the state moves only along the four listed transitions,
\* so Exhausted is reached only after at least one attempt was made.
C12_ListedTransitionsOnly ==
    [][\A p \in Procs :
          /\ ListedMove(p)
          /\ (pc'[p] = "Exhausted" => attempts'[p] >= 1)]_vars

\* C12: Retrier state machine.  For every backoff policy the state moves only
\* along Pending->Retrying, Retrying->Retrying (inside an attempt, or on a
\* failure while attempts remain), Retrying->Succeeded (clean pass),
\* Retrying->Exhausted (failure of the last attempt), and Pending->Exhausted
\* for a policy of 0 steps, where no attempt is made; with at least one step
\* Exhausted is reached only after an attempt; Succeeded and Exhausted are
\* never left.
C12_StateMachine ==
    [][\A p \in Procs :
          /\ ListedMove(p) \/ NoStepMove(p)
          /\ (pc'[p] = "Exhausted" => (attempts'[p] >= 1 <=> policy[p] >= 1))
          /\ (pc[p] \in Terminal => pc'[p] = pc[p])]_vars

C12_Witness ==
    /\ pc[1] = "Exhausted" /\ policy[1] = 0 /\ attempts[1] = 0
    /\ backoffErr[1] = "ErrWaitTimeout"


\* what invocation p has done on the remote resources, and where it stands
Activity(p) ==
    <<pc[p], attempts[p], ended[p], checkFailed[p], patches[p], applied[p], node[p],
      lastPatch[p], backoff[p]>>

\* C13: Stop on first success.  The attempt that ends without error ends the
\* invocation in Succeeded, whatever attempts remain, and once Succeeded the
\* invocation reads and writes nothing more, whatever external writers do
\* to the node afterwards.
C13_StopOnFirstSuccess ==
    [][\A p \in Procs :
          /\ (ended'[p] = ended[p] + 1 /\ lastErr'[p] = "nil") => pc'[p] = "Succeeded"
          /\ pc'[p] = "Succeeded" => lastErr'[p] = "nil" /\ attempts'[p] = ended'[p]
          /\ pc[p] = "Succeeded" => Activity(p)' = Activity(p)]_vars

C13_Witness ==
    /\ pc[1] = "Succeeded" /\ policy[1] = 2 /\ attempts[1] = 1 /\ applied[1] = 1
    /\ backoff[1].Steps = 2
    /\ extWrites >= 1 /\ HasKey(nodeTaints, targetKey)


\* C14: Termination.  Whatever the policy, the remote resources and the
\* external writers do, an invocation makes at most as many attempts as the
\* policy has steps and eventually reaches Succeeded or Exhausted.
C14_Termination ==
    /\ [](\A p \in Procs : attempts[p] <= policy[p])
    /\ (pc[1] = "Pending" ~> pc[1] \in Terminal)

C14_Witness ==
    /\ pc[1] = "Exhausted" /\ policy[1] = 2 /\ attempts[1] = 2
    /\ patches[1] = 2 /\ applied[1] = 0 /\ lastErr[1] = "Conflict" /\ faults = 0


\* Nodes().Get is the first call of every attempt (taint.go:45), so an
\* attempt in progress has issued its node fetch
FetchedThisAttempt(p) == attempts[p] = ended[p] + 1

\* C15: Order inside an attempt.  The Checker runs before the Mutator's
\* fetch of the node: when the Checker runs, and so when it fails, the
\* attempt has fetched no node state, and the snapshot the write is tested
\* against is read after the capacity check.
C15_CheckerBeforeFetch ==
    \A p \in Procs : pc[p] = "CheckAllocatable" => ~FetchedThisAttempt(p)


\* C16: No lost update.  A patch of the invocation is applied only when the
\* node's taints at that step equal the taints the attempt read; test and
\* replace are one step; the applied patch leaves the then-current taints
\* minus the entries with the key, in their order, touches no path but
\* /spec/taints and leaves the CSINode alone; a rejected patch changes
\* nothing.
C16_NoLostUpdate ==
    [][\A p \in Procs :
          /\ applied'[p] > applied[p] =>
                /\ nodeTaints = node[p]
                /\ nodeTaints' = Without(nodeTaints, targetKey)
                /\ csiNode' = csiNode
                /\ \A i \in 1..Len(lastPatch'[p]) : lastPatch'[p][i].Path = "/spec/taints"
          /\ (patches'[p] > patches[p] /\ applied'[p] = applied[p]) =>
                nodeTaints' = nodeTaints]_vars

C16_Witness ==
    /\ pc[1] = "Succeeded" /\ patches[1] = 2 /\ applied[1] = 1 /\ extWrites = 1
    /\ startTaints[1] = <<StartupTaint>> /\ node[1] = <<StartupTaint, OtherTaint>>
    /\ nodeTaints = <<OtherTaint>>


\* the keys a taint of the model can carry
TaintKeys == {t.Key : t \in Taints}

\* C17: The count-based fast path masks no removal.  For the taints an
\* attempt read and every key, the kept list is as long as the list read
\* exactly when no entry has the key; so the Mutator returns without a patch
\* exactly when the snapshot holds no taint with the target key.
C17_FastPathExact ==
    [][\A p \in Procs :
          MutatorReturns(p) =>
             /\ \A key \in TaintKeys :
                   NothingToRemove(taintsToKeep(node[p], key), node[p])
                      <=> ~HasKey(node[p], key)
             /\ patches'[p] = patches[p] <=> ~HasKey(node[p], targetKey)
             /\ patches'[p] = patches[p] + 1 <=> HasKey(node[p], targetKey)]_vars

C17_Witness ==
    /\ pc[1] = "Succeeded" /\ patches[1] = 1 /\ applied[1] = 1
    /\ node[1] = <<OtherTaint, Taint(targetKey, "NoExecute")>>
    /\ nodeTaints = <<OtherTaint>>


\* no call of invocation p fails in this step
NoCallFails(p) == faults' = faults /\ ~ctxCancelled[p]

\* C18: Poll until ready.  An attempt whose check finds the count unset or
\* the entry missing fails without a patch and leaves the node alone; the
\* first attempt whose check finds the count set, with no call failing and
\* the node's taints as the attempt read them, removes the taints with the
\* key by one patch (none when there is none) and ends the invocation in
\* Succeeded; so with no fault and no external write the invocation succeeds
\* at attempt k after k-1 failed checks and exactly one patch.
C18_PollUntilReady ==
    /\ [](\A p \in Procs :
            (extWrites = 0 /\ faults = 0 /\ ~ctxCancelled[p] /\ HasKey(startTaints[p], targetKey)) =>
               /\ patches[p] = applied[p] /\ applied[p] <= 1
               /\ ended[p] = checkFailed[p] + applied[p]
               /\ pc[p] = "Succeeded" =>
                     /\ applied[p] = 1 /\ attempts[p] = checkFailed[p] + 1
                     /\ nodeTaints = Without(startTaints[p], targetKey))
    /\ [][\A p \in Procs :
            /\ (CheckerReturns(p) /\ ~CapacitySet(csiNode, driverName)) =>
                  /\ ended'[p] = ended[p] + 1 /\ lastErr'[p] # "nil" /\ pc'[p] # "Succeeded"
                  /\ patches'[p] = patches[p] /\ nodeTaints' = nodeTaints
            /\ (CheckerReturns(p) /\ CapacitySet(csiNode, driverName) /\ NoCallFails(p)) =>
                  pc'[p] = "Mutate" /\ ended'[p] = ended[p]
            /\ (MutatorReturns(p) /\ nodeTaints = node[p] /\ NoCallFails(p)) =>
                  /\ pc'[p] = "Succeeded" /\ lastErr'[p] = "nil"
                  /\ nodeTaints' = Without(node[p], targetKey)
                  /\ applied'[p] - applied[p] = patches'[p] - patches[p]
                  /\ patches'[p] - patches[p] = IF HasKey(node[p], targetKey) THEN 1 ELSE 0]_vars

C18_Witness ==
    /\ pc[1] = "Succeeded" /\ policy[1] = 2 /\ attempts[1] = 2 /\ checkFailed[1] = 1
    /\ recUpdates = 1 /\ extWrites = 0 /\ faults = 0 /\ ~ctxCancelled[1]
    /\ patches[1] = 1 /\ applied[1] = 1
    /\ startTaints[1] = <<OtherTaint, StartupTaint>> /\ nodeTaints = <<OtherTaint>>


\* C19: At most one applied write per invocation.  Whatever patches were
\* rejected, reads failed and external writers did, an invocation has at
\* most one patch applied, and the applied patch is its last remote call:
\* with it the attempt and the invocation end in Succeeded.
C19_AtMostOneAppliedWrite ==
    \A p \in Procs :
       /\ applied[p] <= 1
       /\ applied[p] = 1 =>
             /\ pc[p] = "Succeeded" /\ lastErr[p] = "nil"
             /\ attempts[p] = ended[p]
             /\ lastPatch[p] # NoPatch
             /\ lastPatch[p][1].Value = Marshal(node[p])

C19_Witness ==
    /\ pc[1] = "Succeeded" /\ applied[1] = 1 /\ patches[1] = 1 /\ attempts[1] = 2
    /\ faults = 1 /\ extWrites = 1 /\ HasKey(nodeTaints, targetKey)


\* both invocations have returned, and no call of theirs failed
BothReturned == pc[1] \in Terminal /\ pc[2] \in Terminal /\ faults = 0

\* invocation l applied nothing: it found the taint gone at once, or had one
\* patch rejected and found the taint gone in its next attempt, or had one
\* patch rejected in the only attempt of its policy
Yielded(l) ==
    /\ applied[l] = 0
    /\ \/ pc[l] = "Succeeded" /\ patches[l] = 0 /\ attempts[l] = 1
       \/ pc[l] = "Succeeded" /\ patches[l] = 1 /\ attempts[l] = 2
       \/ /\ pc[l] = "Exhausted" /\ patches[l] = 1 /\ attempts[l] = 1
          /\ policy[l] = 1 /\ lastErr[l] = "Conflict"

\* C20: Two concurrent invocations.  With the count set, the taint on the
\* node and no other writer, at most one patch is ever applied; when both
\* invocations of at least one step each have returned without a failed
\* call, exactly one patch was applied, by an invocation that succeeded at
\* its first attempt, the other applied nothing (a no-op at once, or a
\* rejected patch followed by a no-op in the next attempt when its policy has
\* one), and the node holds its initial taints minus those with the key.
C20_ConcurrentInvocations ==
    /\ applied[1] + applied[2] <= 1
    /\ ~HasKey(nodeTaints, targetKey) <=> applied[1] + applied[2] = 1
    /\ (BothReturned /\ policy[1] >= 1 /\ policy[2] >= 1) =>
          /\ applied[1] + applied[2] = 1
          /\ \E w \in Procs : \E l \in Procs \ {w} :
                /\ applied[w] = 1 /\ pc[w] = "Succeeded"
                /\ patches[w] = 1 /\ attempts[w] = 1
                /\ HasKey(startTaints[w], targetKey)
                /\ nodeTaints = Without(startTaints[w], targetKey)
                /\ Yielded(l)
          /\ \A p \in Procs : policy[p] >= 2 => pc[p] = "Succeeded"

C20_Witness ==
    /\ pc[1] = "Succeeded" /\ applied[1] = 0 /\ patches[1] = 1 /\ attempts[1] = 2
    /\ pc[2] = "Succeeded" /\ applied[2] = 1 /\ attempts[2] = 1
    /\ faults = 0
    /\ startTaints[1] = <<StartupTaint, OtherTaint>> /\ startTaints[2] = startTaints[1]
    /\ nodeTaints = <<OtherTaint>>

====
